---- MODULE Spec2Model ----
(***************************************************************************)
(* Model of the YouTube downloader: the stream selection, acquisition and  *)
(* merge pipeline of src/app.py (browser front end, one background thread  *)
(* per request) and src/yd.py (terminal front end).                        *)
(***************************************************************************)
EXTENDS Integers, Sequences, FiniteSets, TLC

VARIABLES
    fs,       \* the file system: a function from existing paths to file contents
    th,       \* per worker: the locals of the running download function
    nrun,     \* number of single-item pipeline runs started so far
    selIn,    \* selector check: the catalog and the quality ceiling given
    selOut,   \* selector check: what the selection code returned
    uq,       \* uniquify check: the path asked for and what each call returned
    url       \* normalizer check: the string given and the string returned

vars == <<fs, th, nrun, selIn, selOut, uq, url>>

----------------------------------------------------------------------------
(* Bounds of the model *)

MaxStreams == 3
MaxCalls == 3
MaxRuns == 2
MaxItems == 2
MaxUrl == 4
IdLen == 2

NoUrl == [input |-> <<>>, output |-> <<>>, cleaned |-> FALSE]

----------------------------------------------------------------------------
(* Representations offered by the catalog service (pytubefix Stream).      *)
(* res = 0 and abr = 0 stand for the attribute being None.                 *)

Mk(type, prog, ext, res, abr, size) ==
    [type |-> type, prog |-> prog, ext |-> ext, res |-> res, abr |-> abr, size |-> size]

NoStream == Mk("none", FALSE, "none", 0, 0, 0)

StreamPool ==
    { Mk("video", FALSE, "mp4", 720, 0, 5),
      Mk("video", FALSE, "mp4", 1080, 0, 7),
      Mk("video", FALSE, "webm", 2160, 0, 8),
      Mk("audio", FALSE, "mp4", 0, 128, 2),
      Mk("audio", FALSE, "webm", 0, 160, 6),
      Mk("video", TRUE, "mp4", 360, 96, 4),
      Mk("video", TRUE, "mp4", 720, 128, 0) }

RECURSIVE SeqsUpTo(_, _)
SeqsUpTo(S, n) ==
    IF n = 0 THEN {<<>>}
    ELSE LET shorter == SeqsUpTo(S, n - 1)
         IN  shorter \cup { Append(c, s) : c \in {x \in shorter : Len(x) = n - 1},
                                          s \in S }

NoRepeat(c) == \A i, j \in 1..Len(c) : c[i] = c[j] => i = j

Catalogs == { c \in SeqsUpTo(StreamPool, MaxStreams) : NoRepeat(c) }

Qualities == {480, 720, 1080}

----------------------------------------------------------------------------
(* StreamQuery: filter, order_by, desc, first                              *)

Attr(s, a) == IF a = "res" THEN s.res ELSE s.abr

RECURSIVE InsertSorted(_, _, _)
InsertSorted(sorted, s, a) ==
    IF sorted = <<>> THEN <<s>>
    ELSE IF Attr(s, a) < Attr(Head(sorted), a)
         THEN <<s>> \o sorted
         ELSE <<Head(sorted)>> \o InsertSorted(Tail(sorted), s, a)

RECURSIVE SortedBy(_, _)
SortedBy(q, a) ==
    IF q = <<>> THEN <<>>
    ELSE InsertSorted(SortedBy(SubSeq(q, 1, Len(q) - 1), a), q[Len(q)], a)

HasAttr(s, a) == Attr(s, a) # 0

\* order_by: drops the streams whose attribute is None, stable ascending sort
OrderBy(q, a) ==
    LET Has(s) == HasAttr(s, a)
    IN  SortedBy(SelectSeq(q, Has), a)

RECURSIVE Desc(_)
Desc(q) == IF q = <<>> THEN <<>> ELSE Append(Desc(Tail(q)), Head(q))

First(q) == IF q = <<>> THEN NoStream ELSE Head(q)

IsAdaptiveVideo(s) == s.type = "video" /\ ~s.prog
IsAdaptiveVideoMp4(s) == IsAdaptiveVideo(s) /\ s.ext = "mp4"
IsAdaptiveAudio(s) == s.type = "audio" /\ ~s.prog
IsProgressive(s) == s.prog

video_streams(cat) == Desc(OrderBy(SelectSeq(cat, IsAdaptiveVideoMp4), "res"))

audio_streams(cat) == Desc(OrderBy(SelectSeq(cat, IsAdaptiveAudio), "abr"))

RECURSIVE FirstAtMost(_, _)
FirstAtMost(q, ceiling) ==
    IF q = <<>> THEN NoStream
    ELSE IF Head(q).res <= ceiling THEN Head(q)
         ELSE FirstAtMost(Tail(q), ceiling)

selected_video_strict(cat, ceiling) ==
    LET vs == video_streams(cat)
        Below(s) == s.res < ceiling
        hit == First(SelectSeq(vs, Below))
    IN  IF hit # NoStream THEN hit ELSE First(vs)

selected_video(cat, ceiling) ==
    LET vs == video_streams(cat)
        hit == FirstAtMost(vs, ceiling)
    IN  IF hit # NoStream THEN hit ELSE First(vs)

use_fallback(cat, ceiling) ==
    selected_video(cat, ceiling) = NoStream \/ audio_streams(cat) = <<>>

progressive_stream(cat, ceiling) ==
    LET Exact(s) == IsProgressive(s) /\ s.ext = "mp4" /\ s.res = ceiling
        exact == First(Desc(OrderBy(SelectSeq(cat, Exact), "res")))
    IN  IF exact # NoStream THEN exact
        ELSE First(Desc(OrderBy(SelectSeq(cat, IsProgressive), "res")))

\* the unfiltered query ordered by bitrate: a progressive stream has a bitrate too
any_stream_by_abr(cat) == First(Desc(OrderBy(cat, "abr")))

only_audio_stream(cat) == First(Desc(OrderBy(SelectSeq(cat, IsAdaptiveAudio), "abr")))

----------------------------------------------------------------------------
(* The selector on its own: every catalog and ceiling, one application     *)

NoSel == [video |-> NoStream, audio |-> NoStream, single |-> NoStream, shape |-> "unset"]

Selection(cat, ceiling) ==
    IF use_fallback(cat, ceiling)
    THEN [video |-> NoStream, audio |-> NoStream,
          single |-> progressive_stream(cat, ceiling), shape |-> "single"]
    ELSE [video |-> selected_video(cat, ceiling), audio |-> First(audio_streams(cat)),
          single |-> NoStream, shape |-> "pair"]

InitSel ==
    /\ selIn \in [cat : Catalogs, q : Qualities]
    /\ selOut = NoSel
    /\ fs = <<>>
    /\ th = <<>>
    /\ nrun = 0
    /\ uq = <<>>
    /\ url = NoUrl

SelApply ==
    /\ selOut = NoSel
    /\ selOut' = Selection(selIn.cat, selIn.q)
    /\ UNCHANGED <<fs, th, nrun, selIn, uq, url>>

SpecSel == InitSel /\ [][SelApply]_vars

\* The candidate resolutions of a catalog: video-only, target container, resolution known
CandidateRes(cat) ==
    { cat[i].res : i \in { j \in 1..Len(cat) : IsAdaptiveVideoMp4(cat[j]) /\ cat[j].res # 0 } }

HasAudioTrack(cat) == \E i \in 1..Len(cat) : IsAdaptiveAudio(cat[i]) /\ cat[i].abr # 0

MaxOf(S) == CHOOSE m \in S : \A x \in S : x <= m

\* C1: with candidate video resolutions R and a paired audio track, the selector
\* returns the pair shape whose video has the largest R <= Q when one exists, and
\* otherwise the largest R overall; it never returns nothing because all R exceed Q.
C1_SelectorPicksBest ==
    (selOut # NoSel /\ CandidateRes(selIn.cat) # {} /\ HasAudioTrack(selIn.cat)) =>
        LET R == CandidateRes(selIn.cat)
            under == { r \in R : r <= selIn.q }
        IN  /\ selOut.shape = "pair"
            /\ selOut.video # NoStream
            /\ IsAdaptiveVideoMp4(selOut.video)
            /\ selOut.video.res = (IF under # {} THEN MaxOf(under) ELSE MaxOf(R))

\* C1 witness: two candidates, both above the ceiling, and the larger one was picked
C1_Witness ==
    /\ selOut # NoSel
    /\ HasAudioTrack(selIn.cat)
    /\ Cardinality(CandidateRes(selIn.cat)) = 2
    /\ \A r \in CandidateRes(selIn.cat) : r > selIn.q
    /\ selOut.shape = "pair"
    /\ selOut.video.res = MaxOf(CandidateRes(selIn.cat))

----------------------------------------------------------------------------
(* Paths and file names.  A name is a sequence of characters; a path is a  *)
(* directory, the name up to its extension, and the extension (what        *)
(* os.path.splitext separates).                                            *)

Digit == <<"1", "2", "3", "4", "5", "6", "7", "8", "9">>

RECURSIVE Dec(_)
Dec(k) ==
    IF k < 10 THEN <<(IF k = 0 THEN "0" ELSE Digit[k])>>
    ELSE Dec(k \div 10) \o <<(IF k % 10 = 0 THEN "0" ELSE Digit[k % 10])>>

Path(dir, stem, ext) == [dir |-> dir, stem |-> stem, ext |-> ext]

Illegal == {"\\", "/", "*", "?", ":", "\"", "<", ">", "|"}

RECURSIVE LStrip(_)
LStrip(name) ==
    IF name # <<>> /\ Head(name) = " " THEN LStrip(Tail(name)) ELSE name

RECURSIVE RStrip(_)
RStrip(name) ==
    IF name # <<>> /\ name[Len(name)] = " "
    THEN RStrip(SubSeq(name, 1, Len(name) - 1)) ELSE name

sanitize_filename(name) ==
    LET Legal(c) == c \notin Illegal
    IN  RStrip(LStrip(SelectSeq(name, Legal)))

\* the cleaning stream.download applies to the title: the same characters, no strip
safe_filename(name) ==
    LET Legal(c) == c \notin Illegal
    IN  SelectSeq(name, Legal)

RECURSIVE unique_loop(_, _, _, _)
unique_loop(files, path, cur, counter) ==
    IF cur \in files
    THEN unique_loop(files, path,
                     Path(path.dir, path.stem \o <<"_">> \o Dec(counter), path.ext),
                     counter + 1)
    ELSE cur

\* a single existence test in place of the loop
get_unique_path_once(files, path) ==
    IF path \in files
    THEN Path(path.dir, path.stem \o <<"_">> \o Dec(1), path.ext)
    ELSE path

get_unique_path(files, path) == unique_loop(files, path, path, 1)

----------------------------------------------------------------------------
(* get_unique_path on its own: successive calls for one path, the returned *)
(* file being created after each call                                      *)

File(kind, by, size) == [kind |-> kind, by |-> by, size |-> size]

Remove(files, p) == [q \in (DOMAIN files) \ {p} |-> files[q]]

Write(files, p, c) == [q \in (DOMAIN files) \cup {p} |-> IF q = p THEN c ELSE files[q]]

UqArgs == { Path("downloads", <<"a">>, "mp4"), Path("downloads", <<"a", "_", "1">>, "mp4") }

UqExisting ==
    UqArgs \cup { Path("downloads", <<"a", "_", "2">>, "mp4"),
                  Path("downloads", <<"a", "_", "3">>, "mp4"),
                  Path("downloads", <<"a", "_", "1", "_", "1">>, "mp4"),
                  Path("downloads", <<"a">>, "mp3") }

InitUq ==
    /\ \E S \in SUBSET UqExisting : fs = [p \in S |-> File("old", 0, 1)]
    /\ uq \in [arg : UqArgs, rets : {<<>>}]
    /\ th = <<>>
    /\ nrun = 0
    /\ selIn = <<>>
    /\ selOut = NoSel
    /\ url = NoUrl

UqCall ==
    /\ Len(uq.rets) < MaxCalls
    /\ LET ret == get_unique_path(DOMAIN fs, uq.arg)
       IN  /\ uq' = [uq EXCEPT !.rets = Append(@, [ret |-> ret, before |-> DOMAIN fs])]
           /\ fs' = Write(fs, ret, File("new", Len(uq.rets) + 1, 1))
    /\ UNCHANGED <<th, nrun, selIn, selOut, url>>

SpecUq == InitUq /\ [][UqCall]_vars

\* C9: get_unique_path returns its argument unchanged when that path does not exist;
\* over successive calls for one path, each returned file being created, every
\* returned path was absent when returned and the returned paths are pairwise distinct.
C9_UniquifyFresh ==
    \A i \in 1..Len(uq.rets) :
        /\ (uq.arg \notin uq.rets[i].before) => uq.rets[i].ret = uq.arg
        /\ uq.rets[i].ret \notin uq.rets[i].before
        /\ \A j \in 1..Len(uq.rets) : uq.rets[i].ret = uq.rets[j].ret => i = j

\* C9 witness: three calls, the first on a path that exists together with its _1 name
C9_Witness ==
    /\ Len(uq.rets) = 3
    /\ uq.arg \in uq.rets[1].before
    /\ Path(uq.arg.dir, uq.arg.stem \o <<"_", "1">>, uq.arg.ext) \in uq.rets[1].before
    /\ uq.rets[3].ret.stem = uq.arg.stem \o <<"_", "4">>

----------------------------------------------------------------------------
(* clean_youtube_url.  A string is a sequence of symbols: "s" is the short *)
(* link's head (http or https, ://youtu.be/), "i" and "j" are characters   *)
(* an identifier may hold, "w" is the text watch?v=, "&" is itself, "x" is *)
(* any other character, "y" is the head https://www.youtube.com/.  An      *)
(* identifier is IdLen characters long (11 in the code).                   *)

UrlSymbols == {"s", "i", "j", "w", "&", "x"}

IdSymbols == {"i", "j"}

Urls == SeqsUpTo(UrlSymbols, MaxUrl)

\* re.match(r"https?://youtu\.be/([a-zA-Z0-9_-]{11})", url): anchored at the start
short_link_match(u) ==
    /\ Len(u) >= 1 + IdLen
    /\ u[1] = "s"
    /\ \A k \in 2..(1 + IdLen) : u[k] \in IdSymbols

\* match.group(1)
short_link_id(u) == SubSeq(u, 2, 1 + IdLen)

Contains(u, c) == \E k \in 1..Len(u) : u[k] = c

\* url.split("&")[0]: the text before the first "&" of the whole string
split_first(u) ==
    IF Contains(u, "&")
    THEN SubSeq(u, 1, (CHOOSE k \in 1..Len(u) :
                          u[k] = "&" /\ \A m \in 1..(k - 1) : u[m] # "&") - 1)
    ELSE u

clean_youtube_url(u) ==
    IF short_link_match(u) THEN <<"y", "w">> \o short_link_id(u)
    ELSE IF Contains(u, "w") THEN split_first(u)
    ELSE u

InitUrl ==
    /\ url \in [input : Urls, output : {<<>>}, cleaned : {FALSE}]
    /\ fs = <<>>
    /\ th = <<>>
    /\ nrun = 0
    /\ selIn = <<>>
    /\ selOut = NoSel
    /\ uq = <<>>

\* api_download / main: url = clean_youtube_url(url)
CleanUrl ==
    /\ ~url.cleaned
    /\ url' = [url EXCEPT !.output = clean_youtube_url(url.input), !.cleaned = TRUE]
    /\ UNCHANGED <<fs, th, nrun, selIn, selOut, uq>>

SpecUrl == InitUrl /\ [][CleanUrl]_vars

\* the position of the first watch marker
MarkerAt(u) == CHOOSE k \in 1..Len(u) : u[k] = "w" /\ \A m \in 1..(k - 1) : u[m] # "w"

\* the string cut at the first "&" that comes after the first marker
CutAfterMarker(u) ==
    LET m == MarkerAt(u)
        amps == { k \in (m + 1)..Len(u) : u[k] = "&" }
    IN  IF amps = {} THEN u
        ELSE SubSeq(u, 1, (CHOOSE k \in amps : \A j \in amps : k <= j) - 1)

\* C15 (as claimed): a short link becomes the long form built from its identifier;
\* otherwise a string with the watch marker is cut at the first "&" after the marker;
\* any other string comes back unchanged.
C15_NormalizerAsStated ==
    url.cleaned =>
        url.output = IF short_link_match(url.input)
                     THEN <<"y", "w">> \o short_link_id(url.input)
                     ELSE IF Contains(url.input, "w") THEN CutAfterMarker(url.input)
                     ELSE url.input

----------------------------------------------------------------------------
(* The single-item pipeline: download_video_web (app.py) and               *)
(* download_video (yd.py), one action per step between two file-system or  *)
(* catalog accesses.  A worker's record holds the function's locals.       *)

Workers == {1, 2}

Titles == { <<"a">>, <<" ", "b", ":">> }

PipelineQualities == {480, 720}

\* target_quality="720", the default of both entry points
DefaultQuality == 720

NoPath == Path("none", <<>>, "none")

NoResult == [success |-> FALSE, type |-> "none", filename |-> NoPath, error |-> "none"]

\* download_playlist_web's locals: the playlist's videos, the loop index, results
NoPl == [items |-> <<>>, listed |-> FALSE, idx |-> 0, results |-> <<>>]

Idle ==
    [pc |-> "idle", fe |-> "none", title |-> <<>>, q |-> 0, audio_only |-> FALSE, id |-> 0,
     stream |-> NoStream, selected_video |-> NoStream, audio_stream |-> NoStream,
     file_path |-> NoPath, mp3_path |-> NoPath, video_path |-> NoPath,
     audio_path |-> NoPath, output_file |-> NoPath, tool |-> "none", log |-> <<>>,
     result |-> NoResult, pl |-> NoPl]

Ev(pct, msg, err) == [pct |-> pct, msg |-> msg, err |-> err]

\* emit_progress: the browser front end sends the event, the terminal one only prints
emit_progress(r, pct, msg, err) ==
    IF r.fe = "web" THEN [r EXCEPT !.log = Append(@, Ev(pct, msg, err))] ELSE r

\* the success result with the kind of the video paths, whatever was produced
SucceedAsVideo(r, type, filename) ==
    [r EXCEPT !.pc = "done",
              !.result = [success |-> TRUE, type |-> "video", filename |-> filename,
                          error |-> "none"]]

\* a success result returned (app.py) or the success line printed (yd.py)
Succeed(r, type, filename) ==
    [r EXCEPT !.pc = "done",
              !.result = [success |-> TRUE, type |-> type, filename |-> filename,
                          error |-> "none"]]

\* the failure result without the error event
FailSilent(r, err) ==
    [r EXCEPT
        !.pc = "done",
        !.result = [success |-> FALSE, type |-> "none", filename |-> NoPath, error |-> err]]

\* the outer except clause: the error event, then the failure result
Fail(r, err) ==
    [emit_progress(r, 0, "error", err) EXCEPT
        !.pc = "done",
        !.result = [success |-> FALSE, type |-> "none", filename |-> NoPath, error |-> err]]

StreamKind(s) == IF s.prog THEN "progressive" ELSE s.type

\* stream.filesize is 0 when the service does not tell the length of the stream
UnknownTotal(s) == s # NoStream /\ s.size = 0

\* bytes arrive in chunks of 4; a stream of unknown length arrives as one chunk
Chunks(s) == IF UnknownTotal(s) THEN 1 ELSE (s.size + 3) \div 4

Received(s, i) == IF UnknownTotal(s) \/ 4 * i < s.size THEN 4 * i ELSE s.size

\* percent = int((downloaded / total) * 100) divides by the total: it raises at the
\* first chunk of a stream whose total is 0
callback_raises(s, k) == UnknownTotal(s) /\ k > 0

\* the fetch returned: every chunk arrived and no callback raised
Fetched(s, k) == k = Chunks(s) /\ ~callback_raises(s, k)

\* what ends a fetch that did not return: the callback's error or a transfer error
fetch_error(s, k) == IF callback_raises(s, k) THEN "zero_division" ELSE "transfer"

progress_percent(total, bytes_remaining) == ((total - bytes_remaining) * 100) \div total

RECURSIVE progress_callback(_, _, _)
progress_callback(r, s, k) ==
    IF k = 0 \/ callback_raises(s, k) THEN r
    ELSE emit_progress(progress_callback(r, s, k - 1),
                       progress_percent(s.size, s.size - Received(s, k)), "downloading", "")

\* the name stream.download gives the file: prefix, cleaned title, the stream's subtype
default_path(dir, prefix, title, s) ==
    Path(dir, prefix \o safe_filename(title), s.ext)

\* stream.download skips a file that is already there with the stream's size
SkipExisting(files, s, path) == path \in DOMAIN files /\ files[path].size = s.size

Downloaded(files, s, path, id, k) ==
    IF SkipExisting(files, s, path) THEN files
    ELSE Write(files, path, File(StreamKind(s), id, Received(s, k)))

\* save_thumbnail: same directory and base name, .jpg; a failure changes nothing
thumb_path(filename) == Path("downloads", filename.stem, "jpg")

\* the image written under the deliverable's own name
save_thumbnail_in_place(files, filename, id, saved) ==
    IF saved THEN Write(files, filename, File("thumbnail", id, 1)) ELSE files

save_thumbnail(files, filename, id, saved) ==
    IF saved THEN Write(files, thumb_path(filename), File("thumbnail", id, 1)) ELSE files

Set(t, r) == th' = [th EXCEPT ![t] = r]

\* what the selection code can return, over every catalog the service may answer with
AudioSelections == { only_audio_stream(cat) : cat \in Catalogs }

VideoSelections == [q \in PipelineQualities |-> { Selection(cat, q) : cat \in Catalogs }]

\* api_download (app.py) / main (yd.py): one video request handed to a worker
Request(t, fes, flags, qs) ==
    /\ th[t].pc = "idle"
    /\ nrun < MaxRuns
    /\ nrun' = nrun + 1
    /\ \E fe \in fes, title \in Titles, q \in qs, ao \in flags :
          Set(t, [Idle EXCEPT !.pc = "resolve", !.fe = fe, !.title = title, !.q = q,
                              !.audio_only = ao, !.id = nrun + 1])
    /\ UNCHANGED <<fs, selIn, selOut, uq, url>>

\* YouTube(url) and the first reads of its title, author, length
Resolve(t) ==
    /\ th[t].pc = "resolve"
    /\ LET r0 == emit_progress(th[t], 0, "fetching", "")
       IN  \/ Set(t, Fail(r0, "catalog"))
           \/ Set(t, [emit_progress(emit_progress(r0, 10, "processing", ""),
                                    10, "processing", "")
                      EXCEPT !.pc = IF th[t].audio_only THEN "audio_select"
                                    ELSE "video_select"])
    /\ UNCHANGED <<fs, nrun, selIn, selOut, uq, url>>

\* audio only: the highest-bitrate audio-only stream, or none
SelectAudio(t) ==
    /\ th[t].pc = "audio_select"
    /\ \E s \in AudioSelections :
          LET r0 == emit_progress(th[t], 20, "audio_only", "")
          IN  IF s = NoStream
              THEN Set(t, Fail(r0, IF th[t].fe = "web" THEN "no_audio_stream"
                                   ELSE "attribute_error"))
              ELSE Set(t, [r0 EXCEPT !.pc = "audio_download", !.stream = s])
    /\ UNCHANGED <<fs, nrun, selIn, selOut, uq, url>>

\* stream.download(output_path=DOWNLOADS_DIR) of the audio stream
AudioDownload(t) ==
    /\ th[t].pc = "audio_download"
    /\ LET r == th[t]
           path == default_path("downloads", <<>>, r.title, r.stream)
       IN  IF SkipExisting(fs, r.stream, path)
           THEN /\ Set(t, [emit_progress(r, 80, "converting", "")
                           EXCEPT !.pc = "convert", !.file_path = path])
                /\ fs' = fs
           ELSE \E k \in 0..Chunks(r.stream) :
                   /\ fs' = Downloaded(fs, r.stream, path, r.id, k)
                   /\ IF Fetched(r.stream, k)
                      THEN Set(t, [emit_progress(progress_callback(r, r.stream, k),
                                                 80, "converting", "")
                                   EXCEPT !.pc = "convert", !.file_path = path])
                      ELSE Set(t, Fail(progress_callback(r, r.stream, k),
                                       fetch_error(r.stream, k)))
    /\ UNCHANGED <<nrun, selIn, selOut, uq, url>>

\* os.remove raises when the file is not there, and may be refused by the system
CanRemove(files, p, allowed) == p \in DOMAIN files /\ allowed

ToolOutcomes == {"ok", "empty", "missing", "nonzero", "timeout", "raise"}

\* what ffmpeg -y leaves at the output path
ToolWrites(files, out, path, id) ==
    CASE out = "ok" -> Write(files, path, File("mp3", id, 1))
      [] out = "empty" -> Write(files, path, File("mp3", id, 0))
      [] OTHER -> files

\* app.py: the conversion to mp3, the check of the output, the removal of the input
WebConvert(t) ==
    /\ th[t].pc = "convert"
    /\ th[t].fe = "web"
    /\ \E out \in ToolOutcomes, removed \in BOOLEAN, saved \in BOOLEAN :
          LET mp3_path == Path(th[t].file_path.dir, th[t].file_path.stem, "mp3")
              fs1 == ToolWrites(fs, out, mp3_path, th[t].id)
              r == [th[t] EXCEPT !.tool = out, !.mp3_path = mp3_path]
          IN  CASE out = "nonzero" -> Set(t, Fail(r, "conversion_failed")) /\ fs' = fs1
                [] out = "timeout" -> Set(t, Fail(r, "conversion_timeout")) /\ fs' = fs1
                [] out = "raise" -> Set(t, Fail(r, "conversion_error")) /\ fs' = fs1
                [] OTHER ->
                     IF mp3_path \in DOMAIN fs1 /\ fs1[mp3_path].size > 0
                     THEN IF CanRemove(fs1, r.file_path, removed)
                          THEN /\ fs' = save_thumbnail(Remove(fs1, r.file_path), mp3_path,
                                                       r.id, saved)
                               /\ Set(t, Succeed(emit_progress(r, 100, "complete", ""),
                                                 "audio", mp3_path))
                          ELSE /\ fs' = fs1
                               /\ Set(t, Fail(r, "conversion_error"))
                     ELSE /\ fs' = fs1
                          /\ Set(t, Fail(r, "empty_output"))
    /\ UNCHANGED <<nrun, selIn, selOut, uq, url>>

\* yd.py: mp4_path.replace(".mp4", ".mp3"), ffmpeg unchecked, os.remove(mp4_path)
CliConvert(t) ==
    /\ th[t].pc = "convert"
    /\ th[t].fe = "cli"
    /\ \E out \in ToolOutcomes \ {"timeout"}, removed \in BOOLEAN :
          LET mp3_path == IF th[t].file_path.ext = "mp4"
                          THEN Path(th[t].file_path.dir, th[t].file_path.stem, "mp3")
                          ELSE th[t].file_path
              \* ffmpeg refuses to write over its own input
              ran == IF mp3_path = th[t].file_path /\ out \in {"ok", "empty"}
                     THEN "nonzero" ELSE out
              fs1 == ToolWrites(fs, ran, mp3_path, th[t].id)
              r == [th[t] EXCEPT !.tool = ran, !.mp3_path = mp3_path]
          IN  IF ran = "raise"
              THEN Set(t, Fail(r, "conversion_error")) /\ fs' = fs1
              ELSE IF CanRemove(fs1, r.file_path, removed)
              THEN /\ fs' = Remove(fs1, r.file_path)
                   /\ Set(t, Succeed(r, "audio", mp3_path))
              ELSE Set(t, Fail(r, "remove_error")) /\ fs' = fs1
    /\ UNCHANGED <<nrun, selIn, selOut, uq, url>>

ResStr(res) ==
    CASE res = 360 -> <<"3", "6", "0", "p">>
      [] res = 720 -> <<"7", "2", "0", "p">>
      [] res = 1080 -> <<"1", "0", "8", "0", "p">>
      [] OTHER -> <<"N", "o", "n", "e">>

\* video: the pair of adaptive streams, or the progressive fallback
SelectVideo(t) ==
    /\ th[t].pc = "video_select"
    /\ \E sel \in VideoSelections[th[t].q] :
          LET r == th[t]
          IN  IF sel.shape = "single"
              THEN Set(t, [emit_progress(r, 30, "fallback", "")
                           EXCEPT !.pc = "progressive_download", !.stream = sel.single])
              ELSE Set(t, [emit_progress(r, 30, "video", "")
                           EXCEPT !.pc = "video_download", !.selected_video = sel.video,
                                  !.audio_stream = sel.audio])
    /\ UNCHANGED <<fs, nrun, selIn, selOut, uq, url>>

\* the progressive stream straight into DOWNLOADS_DIR; no stream at all raises
ProgressiveDownload(t) ==
    /\ th[t].pc = "progressive_download"
    /\ LET r == th[t]
           path == default_path("downloads", <<>>, r.title, r.stream)
       IN  IF r.stream = NoStream
           THEN Set(t, Fail(r, "attribute_error")) /\ fs' = fs
           ELSE \E k \in 0..Chunks(r.stream), saved \in BOOLEAN :
                   LET skip == SkipExisting(fs, r.stream, path)
                       r1 == IF skip THEN r ELSE progress_callback(r, r.stream, k)
                       fs1 == Downloaded(fs, r.stream, path, r.id, k)
                   IN  IF skip \/ Fetched(r.stream, k)
                       THEN /\ fs' = save_thumbnail(fs1, path, r.id,
                                                    saved /\ r.fe = "web")
                            /\ Set(t, Succeed([emit_progress(r1, 100, "complete", "")
                                               EXCEPT !.file_path = path],
                                              "video", path))
                       ELSE /\ fs' = fs1
                            /\ Set(t, Fail(r1, fetch_error(r.stream, k)))
    /\ UNCHANGED <<nrun, selIn, selOut, uq, url>>

\* selected_video.download into the temporary directory, prefix video_
VideoDownload(t) ==
    /\ th[t].pc = "video_download"
    /\ LET r == th[t]
           path == default_path("tmp", <<"video_">>, r.title, r.selected_video)
       IN  \E k \in 0..Chunks(r.selected_video) :
              LET skip == SkipExisting(fs, r.selected_video, path)
                  r1 == IF skip THEN r ELSE progress_callback(r, r.selected_video, k)
              IN  /\ fs' = Downloaded(fs, r.selected_video, path, r.id, k)
                  /\ IF skip \/ Fetched(r.selected_video, k)
                     THEN Set(t, [emit_progress(r1, 60, "audio", "")
                                  EXCEPT !.pc = "pair_audio_download", !.video_path = path])
                     ELSE Set(t, Fail(r1, fetch_error(r.selected_video, k)))
    /\ UNCHANGED <<nrun, selIn, selOut, uq, url>>

\* the audio fetch started and not waited for
PairAudioDownloadUnwaited(t) ==
    /\ th[t].pc = "pair_audio_download"
    /\ Set(t, [th[t] EXCEPT !.pc = "name"])
    /\ UNCHANGED <<fs, nrun, selIn, selOut, uq, url>>

\* audio_stream.download into the temporary directory, prefix audio_
PairAudioDownload(t) ==
    /\ th[t].pc = "pair_audio_download"
    /\ LET r == th[t]
           path == default_path("tmp", <<"audio_">>, r.title, r.audio_stream)
       IN  \E k \in 0..Chunks(r.audio_stream) :
              LET skip == SkipExisting(fs, r.audio_stream, path)
                  r1 == IF skip THEN r ELSE progress_callback(r, r.audio_stream, k)
              IN  /\ fs' = Downloaded(fs, r.audio_stream, path, r.id, k)
                  /\ IF skip \/ Fetched(r.audio_stream, k)
                     THEN Set(t, [r1 EXCEPT !.pc = "name", !.audio_path = path])
                     ELSE Set(t, Fail(r1, fetch_error(r.audio_stream, k)))
    /\ UNCHANGED <<nrun, selIn, selOut, uq, url>>

\* "<sanitized title> (<resolution>).mp4" in DOWNLOADS_DIR
output_name(title, res) ==
    Path("downloads", sanitize_filename(title) \o <<" ", "(">> \o ResStr(res) \o <<")">>, "mp4")

\* output_file = get_unique_path(...), then the 85% event
Name(t) ==
    /\ th[t].pc = "name"
    /\ LET r == th[t]
           out == get_unique_path(DOMAIN fs, output_name(r.title, r.selected_video.res))
       IN  Set(t, [emit_progress(r, 85, "merging", "")
                   EXCEPT !.pc = "merge_tool", !.output_file = out])
    /\ UNCHANGED <<fs, nrun, selIn, selOut, uq, url>>

\* merge_audio_video returned False: the caller's else branch
MergeFailed(r) ==
    [emit_progress(r, 100, "merge_failed", "merge") EXCEPT
        !.pc = "done",
        !.result = [success |-> FALSE, type |-> "none", filename |-> NoPath,
                    error |-> "merge"]]

\* merge_audio_video: subprocess.run(ffmpeg -y ..., check=True)
MergeTool(t) ==
    /\ th[t].pc = "merge_tool"
    /\ LET r == th[t]
           inputs == r.video_path \in DOMAIN fs /\ r.audio_path \in DOMAIN fs
       IN  \/ /\ inputs
              /\ fs' = Write(fs, r.output_file, File("merged", r.id, 1))
              /\ Set(t, [r EXCEPT !.pc = "merge_remove_video", !.tool = "ok"])
           \/ /\ fs' = fs
              /\ Set(t, [MergeFailed(r) EXCEPT !.tool = "nonzero"])
    /\ UNCHANGED <<nrun, selIn, selOut, uq, url>>

\* merge_audio_video: os.remove(video_path)
MergeRemoveVideo(t) ==
    /\ th[t].pc = "merge_remove_video"
    /\ \E removed \in BOOLEAN :
          LET r == th[t]
          IN  IF CanRemove(fs, r.video_path, removed)
              THEN /\ fs' = Remove(fs, r.video_path)
                   /\ Set(t, [r EXCEPT !.pc = "merge_remove_audio"])
              ELSE /\ fs' = fs
                   /\ Set(t, [MergeFailed(r) EXCEPT !.tool = "remove_raised"])
    /\ UNCHANGED <<nrun, selIn, selOut, uq, url>>

\* merge_audio_video: os.remove(audio_path), return True
MergeRemoveAudio(t) ==
    /\ th[t].pc = "merge_remove_audio"
    /\ \E removed \in BOOLEAN :
          LET r == th[t]
          IN  IF CanRemove(fs, r.audio_path, removed)
              THEN /\ fs' = Remove(fs, r.audio_path)
                   /\ Set(t, [r EXCEPT !.pc = "merged"])
              ELSE /\ fs' = fs
                   /\ Set(t, [MergeFailed(r) EXCEPT !.tool = "remove_raised"])
    /\ UNCHANGED <<nrun, selIn, selOut, uq, url>>

\* merge succeeded: the thumbnail, the 100% event, the success result
Finish(t) ==
    /\ th[t].pc = "merged"
    /\ \E saved \in BOOLEAN :
          LET r == th[t]
          IN  /\ fs' = save_thumbnail(fs, r.output_file, r.id, saved /\ r.fe = "web")
              /\ Set(t, Succeed(emit_progress(r, 100, "complete", ""), "video",
                                r.output_file))
    /\ UNCHANGED <<nrun, selIn, selOut, uq, url>>

\* the function has returned; the worker takes the next request
Return(t) ==
    /\ th[t].pc = "done"
    /\ th[t].pl = NoPl
    /\ Set(t, Idle)
    /\ UNCHANGED <<fs, nrun, selIn, selOut, uq, url>>

Step(t) ==
    \/ Resolve(t)
    \/ SelectAudio(t)
    \/ AudioDownload(t)
    \/ WebConvert(t)
    \/ SelectVideo(t)
    \/ ProgressiveDownload(t)
    \/ VideoDownload(t)
    \/ PairAudioDownload(t)
    \/ Name(t)
    \/ MergeTool(t)
    \/ MergeRemoveVideo(t)
    \/ MergeRemoveAudio(t)
    \/ Finish(t)
    \/ Return(t)

InitPipeline ==
    /\ fs = <<>>
    /\ th = [t \in Workers |-> Idle]
    /\ nrun = 0
    /\ selIn = <<>>
    /\ selOut = NoSel
    /\ uq = <<>>
    /\ url = NoUrl

\* one worker, requests one after the other, either front end
Next ==
    \/ Request(1, {"web", "cli"}, BOOLEAN, {DefaultQuality})
    \/ Step(1)
    \/ CliConvert(1)

Spec == InitPipeline /\ [][Next]_vars

\* the browser front end: a thread per request, two requests in flight
NextConc ==
    \E t \in Workers :
        \/ Request(t, {"web"}, {FALSE}, PipelineQualities)
        \/ Resolve(t)
        \/ SelectVideo(t)
        \/ ProgressiveDownload(t)
        \/ VideoDownload(t)
        \/ PairAudioDownload(t)
        \/ Name(t)
        \/ MergeTool(t)
        \/ MergeRemoveVideo(t)
        \/ MergeRemoveAudio(t)
        \/ Finish(t)
        \/ Return(t)

SpecConc == InitPipeline /\ [][NextConc]_vars

\* merge_audio_video: subprocess.run has no timeout; a tool that never exits is
\* waited for without end
MergeToolHangs(t) ==
    /\ th[t].pc = "merge_tool"
    /\ Set(t, [th[t] EXCEPT !.pc = "merge_waiting", !.tool = "hung"])
    /\ UNCHANGED <<fs, nrun, selIn, selOut, uq, url>>

\* yd.py: the conversion's subprocess.run has no timeout either
CliConvertHangs(t) ==
    /\ th[t].pc = "convert"
    /\ th[t].fe = "cli"
    /\ Set(t, [th[t] EXCEPT !.pc = "convert_waiting", !.tool = "hung"])
    /\ UNCHANGED <<fs, nrun, selIn, selOut, uq, url>>

\* one worker, the external tool may never exit
NextLive ==
    \/ Next
    \/ MergeToolHangs(1)
    \/ CliConvertHangs(1)

\* a started run is carried on by its thread; a new request need never come
SpecLive == InitPipeline /\ [][NextLive]_vars /\ WF_vars(Step(1) \/ CliConvert(1))

\* the steps of one run of either front end, without the return to the caller
RunStep(t) ==
    \/ Resolve(t)
    \/ SelectAudio(t)
    \/ AudioDownload(t)
    \/ WebConvert(t)
    \/ CliConvert(t)
    \/ SelectVideo(t)
    \/ ProgressiveDownload(t)
    \/ VideoDownload(t)
    \/ PairAudioDownload(t)
    \/ Name(t)
    \/ MergeTool(t)
    \/ MergeRemoveVideo(t)
    \/ MergeRemoveAudio(t)
    \/ Finish(t)

\* the two front ends side by side: download_video_web on one video, then
\* download_video with the same quality and mode on another video, whose files
\* cannot meet those of the first
NextFe ==
    \/ Request(1, {"web"}, BOOLEAN, {DefaultQuality})
    \/ /\ th[1].pc = "done"
       /\ Request(2, {"cli"}, {th[1].audio_only}, {th[1].q})
       /\ th'[2].title # th[1].title
    \/ \E t \in Workers : RunStep(t)

SpecFe == InitPipeline /\ [][NextFe]_vars

----------------------------------------------------------------------------
(* The collection run: download_playlist_web                               *)

PlaylistTitles == <<  <<"a">>, <<" ", "b", ":">>, <<"a">>  >>

\* the playlist's videos in catalog order; reachable: whether video.title can be read
PlaylistItems ==
    UNION { [1..n -> [title : Titles, reachable : BOOLEAN]] : n \in 1..MaxItems }

PlaylistRequest(t) ==
    /\ th[t].pc = "idle"
    /\ nrun = 0
    /\ \E items \in { p \in PlaylistItems : \A i \in 1..Len(p) : p[i].title = PlaylistTitles[i] },
          ao \in BOOLEAN :
          Set(t, [Idle EXCEPT !.pc = "playlist_resolve", !.fe = "web", !.q = DefaultQuality,
                              !.audio_only = ao, !.pl = [NoPl EXCEPT !.items = items]])
    /\ UNCHANGED <<fs, nrun, selIn, selOut, uq, url>>

\* Playlist(url), len(pl.videos), pl.title; an error here ends the run
PlaylistResolve(t) ==
    /\ th[t].pc = "playlist_resolve"
    /\ LET r0 == emit_progress(th[t], 0, "fetching_playlist", "")
       IN  \/ Set(t, [Fail(r0, "catalog") EXCEPT !.pc = "playlist_done"])
           \/ Set(t, [emit_progress(r0, 5, "playlist", "")
                      EXCEPT !.pc = "playlist_loop", !.pl.listed = TRUE])
    /\ UNCHANGED <<fs, nrun, selIn, selOut, uq, url>>

playlist_percent(idx, total) == (idx * 90) \div total

\* one turn of the for loop: the [idx/total] event, reading video.title, and the
\* call of download_video_web; after the last video the 100% event and the result
PlaylistLoop(t) ==
    /\ th[t].pc = "playlist_loop"
    /\ LET r == th[t]
           total == Len(r.pl.items)
           idx == r.pl.idx + 1
       IN  IF idx > total
           THEN /\ Set(t, [emit_progress(r, 100, "playlist_complete", "")
                           EXCEPT !.pc = "playlist_done",
                                  !.result = [success |-> TRUE, type |-> "playlist",
                                              filename |-> NoPath, error |-> "none"]])
                /\ nrun' = nrun
           ELSE IF ~r.pl.items[idx].reachable
           THEN /\ Set(t, [Fail(r, "catalog") EXCEPT !.pc = "playlist_done"])
                /\ nrun' = nrun
           ELSE /\ Set(t, [emit_progress(r, playlist_percent(idx, total), "item", "")
                           EXCEPT !.pc = "resolve", !.title = r.pl.items[idx].title,
                                  !.id = nrun + 1, !.pl.idx = idx])
                /\ nrun' = nrun + 1
    /\ UNCHANGED <<fs, selIn, selOut, uq, url>>

\* download_video_web has returned: results.append(result)
PlaylistCollect(t) ==
    /\ th[t].pc = "done"
    /\ th[t].pl # NoPl
    /\ LET r == th[t]
       IN  Set(t, [Idle EXCEPT !.pc = "playlist_loop", !.fe = r.fe, !.q = r.q,
                               !.audio_only = r.audio_only, !.log = r.log,
                               !.pl = [r.pl EXCEPT !.results = Append(@, r.result)]])
    /\ UNCHANGED <<fs, nrun, selIn, selOut, uq, url>>

\* one playlist request, handled by one worker
NextPl ==
    \/ PlaylistRequest(1)
    \/ PlaylistResolve(1)
    \/ PlaylistLoop(1)
    \/ PlaylistCollect(1)
    \/ Resolve(1)
    \/ SelectAudio(1)
    \/ AudioDownload(1)
    \/ WebConvert(1)
    \/ SelectVideo(1)
    \/ ProgressiveDownload(1)
    \/ VideoDownload(1)
    \/ PairAudioDownload(1)
    \/ Name(1)
    \/ MergeTool(1)
    \/ MergeRemoveVideo(1)
    \/ MergeRemoveAudio(1)
    \/ Finish(1)

SpecPl == InitPipeline /\ [][NextPl]_vars

----------------------------------------------------------------------------
(* Properties of the single-item pipeline                                  *)

Last(q) == q[Len(q)]

Finished(t) == th[t].pc = "done"

MergedRun(t) == Finished(t) /\ th[t].result.success /\ th[t].selected_video # NoStream

\* C2: in a run started with the audio-only flag, the only representation ever
\* selected is an audio-only one, and no file this run fetched or produced holds a
\* video, progressive or merged stream, whatever way the run ends.
C2_AudioOnlyNoVideo ==
    \A t \in Workers :
        th[t].audio_only =>
            /\ th[t].selected_video = NoStream
            /\ th[t].stream # NoStream => IsAdaptiveAudio(th[t].stream)
            /\ \A p \in DOMAIN fs :
                  fs[p].by = th[t].id => fs[p].kind \notin {"video", "progressive", "merged"}

\* C2 witness: an audio-only run that fetched an audio stream and failed in conversion
C2_Witness ==
    /\ Finished(1)
    /\ th[1].audio_only
    /\ th[1].stream.abr = 160
    /\ th[1].result.error = "conversion_timeout"
    /\ th[1].file_path \in DOMAIN fs

\* C6 (as claimed): in the audio-only path, when the tool exits cleanly and the output
\* file is missing or has zero size, the run ends in failure and names no deliverable.
C6_EmptyOutputIsFailure ==
    \A t \in Workers :
        ( /\ Finished(t)
          /\ th[t].audio_only
          /\ th[t].tool \in {"ok", "empty", "missing"}
          /\ (th[t].mp3_path \notin DOMAIN fs \/ fs[th[t].mp3_path].size = 0) )
        => (~th[t].result.success /\ th[t].result.filename # th[t].mp3_path)

\* C7 (as claimed): every browser run that returns a failure has, as its last event,
\* a 0% event carrying the error.
C7_FailureEndsAtZero ==
    \A t \in Workers :
        (Finished(t) /\ th[t].fe = "web" /\ ~th[t].result.success) =>
            /\ th[t].log # <<>>
            /\ Last(th[t].log).pct = 0
            /\ Last(th[t].log).err = th[t].result.error

\* C7 (amended): every browser run ends with a result; a failure other than a merge
\* failure has as its last event a 0% event carrying the error, and a merge failure
\* has as its last event the 100% "Merge failed, but files saved" event.
C7_FailureEvents ==
    \A t \in Workers :
        (Finished(t) /\ th[t].fe = "web" /\ ~th[t].result.success) =>
            /\ th[t].result.error # "none"
            /\ th[t].log # <<>>
            /\ IF th[t].result.error = "merge"
               THEN Last(th[t].log) = Ev(100, "merge_failed", "merge")
               ELSE Last(th[t].log) = Ev(0, "error", th[t].result.error)

\* C7 witness: a browser run that failed by conversion timeout
C7_Witness ==
    /\ Finished(1)
    /\ th[1].fe = "web"
    /\ th[1].result.error = "conversion_timeout"
    /\ Len(th[1].log) > 4

Deliverable(c) == c.kind \in {"mp3", "merged", "progressive"} /\ c.size > 0

\* C8 (as claimed): no step of a run changes or removes a deliverable in the
\* destination directory that an earlier run left there, and the file a successful
\* run names was written by that run.
C8_NoOverwrite ==
    [][ \A t \in Workers :
          th'[t] # th[t] =>
            /\ \A p \in DOMAIN fs :
                  (p.dir = "downloads" /\ Deliverable(fs[p]) /\ fs[p].by # th[t].id)
                     => (p \in DOMAIN fs' /\ fs'[p] = fs[p])
            /\ (th'[t].pc = "done" /\ th'[t].result.success
                   /\ th'[t].result.filename \in DOMAIN fs')
                     => fs'[th'[t].result.filename].by = th'[t].id ]_vars

Monotone(log) == \A i, j \in 1..Len(log) : i < j => log[i].pct <= log[j].pct

InBand(log) ==
    \A i, j, k \in 1..Len(log) :
        (log[i].msg = "video" /\ log[k].msg = "merging" /\ i <= j /\ j <= k)
           => (30 <= log[j].pct /\ log[j].pct <= 85)

\* C10 (as claimed): in a successful two-representation run the percentages emitted
\* never decrease, and those from the start of the video fetch to the start of the
\* merge lie between 30 and 85.
C10_MonotoneInBand ==
    \A t \in Workers :
        (MergedRun(t) /\ th[t].fe = "web") => (Monotone(th[t].log) /\ InBand(th[t].log))

\* C11 (as claimed): a run whose fetch of a stream of unknown total size did not
\* return was ended by a transfer error, never by the progress callback.
C11_UnknownTotalTolerated ==
    \A t \in Workers :
        (Finished(t) /\ UnknownTotal(th[t].stream) /\ th[t].file_path = NoPath)
            => th[t].result.error \in {"none", "transfer"}

\* C13 (as claimed): at the end of an audio-only run that reached the conversion, the
\* downloaded input is gone only if the converted output is there with a size above
\* zero; after a failed conversion the input is still present.
C13_InputKeptOnFailure ==
    \A t \in Workers :
        (Finished(t) /\ th[t].audio_only /\ th[t].tool # "none") =>
            \/ th[t].file_path \in DOMAIN fs
            \/ /\ th[t].mp3_path \in DOMAIN fs
               /\ fs[th[t].mp3_path].size > 0
               /\ th[t].result.success

\* C16: a browser run that returns success has the 100% "complete" event as its last
\* event and no such event before it, and its result names a file that exists in the
\* destination directory, with the kind of the run: audio (an mp3) or video.
C16_SuccessNamesDeliverable ==
    \A t \in Workers :
        (Finished(t) /\ th[t].fe = "web" /\ th[t].result.success) =>
            /\ th[t].log # <<>>
            /\ Last(th[t].log) = Ev(100, "complete", "")
            /\ \A i \in 1..(Len(th[t].log) - 1) : th[t].log[i].msg # "complete"
            /\ th[t].result.filename.dir = "downloads"
            /\ th[t].result.filename \in DOMAIN fs
            /\ th[t].result.type = IF th[t].audio_only THEN "audio" ELSE "video"
            /\ th[t].audio_only => fs[th[t].result.filename].kind = "mp3"

\* C16 witness: a second browser run, audio only, that ended in success
C16_Witness ==
    /\ Finished(1)
    /\ th[1].fe = "web"
    /\ th[1].id = 2
    /\ th[1].result.success
    /\ th[1].result.type = "audio"
    /\ th[1].mp3_path \in DOMAIN fs

\* the run got past the catalog and its selection code came back with no stream
NothingUsable(r) ==
    /\ r.pc = "done"
    /\ r.result.error # "catalog"
    /\ r.stream = NoStream
    /\ r.selected_video = NoStream

\* C18 (as claimed): a run whose selection found no usable stream ends in a failure
\* that reports that no stream is available, and has created no file.
C18_NoStreamReported ==
    \A t \in Workers :
        NothingUsable(th[t]) =>
            /\ ~th[t].result.success
            /\ th[t].result.error = "no_audio_stream"
            /\ \A p \in DOMAIN fs : fs[p].by # th[t].id

\* the positions of the events with this message in a run's log
EventsAt(log, msg) == { i \in 1..Len(log) : log[i].msg = msg }

\* C19: in a two-representation run the audio fetch starts only when the video file
\* has been fetched, the output path is chosen only when both files have been
\* fetched, and the merge starts only when the output path is chosen and before
\* anything is written there; the events of the steps come in that order.
C19_StepsInOrder ==
    \A t \in Workers :
        LET r == th[t]
        IN  /\ r.pc = "video_download" =>
                  r.video_path = NoPath /\ r.audio_path = NoPath /\ r.output_file = NoPath
            /\ r.pc = "pair_audio_download" =>
                  /\ r.video_path \in DOMAIN fs
                  /\ r.audio_path = NoPath /\ r.output_file = NoPath
            /\ r.pc = "name" =>
                  /\ r.video_path \in DOMAIN fs /\ r.audio_path \in DOMAIN fs
                  /\ r.output_file = NoPath
            /\ r.pc = "merge_tool" =>
                  /\ r.video_path \in DOMAIN fs /\ r.audio_path \in DOMAIN fs
                  /\ r.output_file # NoPath /\ r.output_file \notin DOMAIN fs
            /\ \A i \in EventsAt(r.log, "audio") : \E j \in EventsAt(r.log, "video") : j < i
            /\ \A i \in EventsAt(r.log, "merging") : \E j \in EventsAt(r.log, "audio") : j < i

\* C19 witness: the second run stands before its merge, both files fetched
C19_Witness ==
    /\ th[1].pc = "merge_tool"
    /\ th[1].id = 2
    /\ th[1].video_path \in DOMAIN fs
    /\ th[1].audio_path \in DOMAIN fs
    /\ th[1].output_file # NoPath

\* the file a successful run is to name: the mp3, the merged output or the
\* progressive file
Produced(r) ==
    IF r.audio_only THEN r.mp3_path
    ELSE IF r.selected_video # NoStream THEN r.output_file
    ELSE r.file_path

\* the thumbnails the run in hand has written
Thumbnails(r) == { p \in DOMAIN fs : fs[p].kind = "thumbnail" /\ fs[p].by = r.id }

C14_RunsEnd == [](th[1].pc = "resolve" => <>(th[1].pc = "done"))

\* the files a run has left, without their names: directory, extension, content
FilesLeft(t) ==
    { <<p.dir, p.ext, fs[p].kind>> : p \in { x \in DOMAIN fs : fs[x].by = th[t].id } }

FetchErrors == {"catalog", "transfer", "zero_division"}

\* both runs are over, chose the same streams, got every byte and met the same tool
\* outcome
SameInputs(t1, t2) ==
    /\ Finished(t1) /\ Finished(t2)
    /\ th[t1].audio_only = th[t2].audio_only /\ th[t1].q = th[t2].q
    /\ th[t1].stream = th[t2].stream
    /\ th[t1].selected_video = th[t2].selected_video
    /\ th[t1].audio_stream = th[t2].audio_stream
    /\ th[t1].tool = th[t2].tool
    /\ th[t1].result.error \notin FetchErrors /\ th[t2].result.error \notin FetchErrors

\* C12 (as claimed): a browser run and a terminal run with the same streams, mode
\* and tool outcome end alike, success or failure, and leave the same files.
C12_FrontEndsAgree ==
    \A t1, t2 \in Workers :
        (th[t1].fe = "web" /\ th[t2].fe = "cli" /\ SameInputs(t1, t2)) =>
            /\ th[t1].result.success = th[t2].result.success
            /\ FilesLeft(t1) = FilesLeft(t2)

----------------------------------------------------------------------------
(* Properties of the merge step and of concurrent requests                 *)

InMerge(r) == r.pc \in {"merge_tool", "merge_remove_video", "merge_remove_audio"}

\* C3 (as claimed): when merge_audio_video returns True the merged output exists and
\* the intermediates it was given are gone; when it returns False both intermediates
\* are still present.
C3_MergeContract ==
    [][ \A t \in Workers :
          /\ (th[t].pc = "merge_remove_audio" /\ th'[t].pc = "merged") =>
                /\ th[t].output_file \in DOMAIN fs'
                /\ th[t].audio_path \notin DOMAIN fs'
                /\ th[t].video_path \in DOMAIN fs' => fs'[th[t].video_path].by # th[t].id
          /\ (InMerge(th[t]) /\ th'[t].pc = "done") =>
                /\ th[t].video_path \in DOMAIN fs'
                /\ th[t].audio_path \in DOMAIN fs' ]_vars

\* the merge tool of this run has written its output file
ToolWrote(r) == r.output_file # NoPath /\ r.tool \in {"ok", "remove_raised"}

\* C5 (as claimed): two runs in flight together whose merge tool has each written a
\* merged output have written to distinct output paths.
C5_DistinctOutputs ==
    \A t1, t2 \in Workers :
        (t1 # t2 /\ ToolWrote(th[t1]) /\ ToolWrote(th[t2])) =>
            th[t1].output_file # th[t2].output_file

\* the paths outside the destination directory that a run in flight works on
Temporaries(r) ==
    IF r.pc \in {"idle", "done"} THEN {}
    ELSE { p \in {r.video_path, r.audio_path} : p # NoPath /\ p.dir # "downloads" }

\* C17 (as claimed): two requests in flight together work on no common path outside
\* the destination directory.
C17_PrivateTemporaries ==
    \A t1, t2 \in Workers :
        t1 # t2 => Temporaries(th[t1]) \cap Temporaries(th[t2]) = {}

----------------------------------------------------------------------------
(* Properties of the collection run                                        *)

\* C20 (as claimed): in a collection run the event of item i carries i*90/N rounded
\* down, no event above 90% is sent before every item has been processed, and the
\* 100% event is sent once, as the last event.
C20_CollectionBand ==
    \A t \in Workers :
        LET r == th[t]
            N == Len(r.pl.items)
            items == EventsAt(r.log, "item")
        IN  r.pl.listed =>
              /\ \A i \in items :
                    r.log[i].pct = (Cardinality({ j \in items : j <= i }) * 90) \div N
              /\ r.pc # "playlist_done" => \A i \in 1..Len(r.log) : r.log[i].pct <= 90
              /\ (r.pc = "playlist_done" /\ r.result.success) =>
                    { i \in 1..Len(r.log) : r.log[i].pct = 100 } = {Len(r.log)}

\* C4 (as claimed): once the playlist's N videos are listed, the collection run ends
\* with a result of kind playlist holding N per-item results, whichever items fail.
C4_AllItemsCollected ==
    \A t \in Workers :
        (th[t].pc = "playlist_done" /\ th[t].pl.listed) =>
            /\ th[t].result.success
            /\ th[t].result.type = "playlist"
            /\ Len(th[t].pl.results) = Len(th[t].pl.items)

====
